---- MODULE Spec2Model ----
(***************************************************************************)
(* TuShare backend: the ride-booking transaction (app/services/            *)
(* rides_service.py behind app/routers/rides.py) and the bearer-token      *)
(* gate with its revocation store (app/core/token_bearer.py,               *)
(* app/routers/auth.py), and account creation with its e-mailed links      *)
(* (app/services/auth_service.py, app/utils/auth.py).                      *)
(*                                                                         *)
(* Every HTTP request runs as its own task on one event loop with its own  *)
(* database session; a task can be suspended at every await.  The model    *)
(* therefore splits a handler at its awaits: what runs between two awaits  *)
(* is one atomic action, and actions of different requests interleave.     *)
(***************************************************************************)
EXTENDS Integers, FiniteSets, Sequences, TLC

----------------------------------------------------------------------------
(* Bounds of the model *)

NumUsers == 3
MaxRides == 2
MaxSeats == 2
NumReqs == 3

MaxTime == 3
MaxJti == 4
NumAuthReqs == 2

NumSignupReqs == 2
NumLinkReqs == 2
NumEditReqs == 1
NumEditors == 2
MaxLinks == 2

\* lifetimes of access and refresh tokens, in clock ticks
\* (Config.ACCESS_TOKEN_EXPIRY seconds, Config.REFRESH_TOKEN_EXPIRY days)
AccessTTL == 1
RefreshTTL == 2

\* lifetime of a URL-safe token, in clock ticks
\* (decode_url_safe_token: max_age=1800 seconds)
UrlMaxAge == 1

Users == 1..NumUsers
RideIds == 1..MaxRides
\* the booking calls of a run, one slot per call
Reqs == 1..NumReqs
\* the calls to token-protected endpoints of a run, one slot per call
AReqs == 1..NumAuthReqs
Jtis == 1..MaxJti
\* the calls to POST /auth/signup of a run, one slot per call
SReqs == 1..NumSignupReqs
\* the calls to the endpoints that consume an e-mailed link, one slot per call
LReqs == 1..NumLinkReqs
\* what a client may submit to signup; a username is any string, so it may
\* be spelled like an email address
EmailInputs == {"ann@x.io", "bob@x.io"}
UsernameInputs == {"ann", "bob@x.io"}
MobileInputs == {"0711", "0722"}
\* the calls to PUT /users/profile/{user_id}/edit of a run, one slot per call
EReqs == 1..NumEditReqs
\* a form field that was not submitted (None)
Null == "<null>"
\* what a client may submit for the username and mobile_number of a profile
EditUsernames == {Null, "bob@x.io"}
EditMobiles == {Null, "0722"}
\* (new_password, confirm_new_password) pairs a client may submit
PasswordPairs ==
    {<<"short", "short">>, <<"longpassword", "other">>,
     <<"longpassword", "longpassword">>}
\* seat counts a client may submit; -1 stands for every negative value
SeatInputs == (-1)..MaxSeats
\* prices a client may submit; 0 stands for every non-positive value
PriceInputs == {0, 10}

VARIABLES
    users,          \* table users: id -> [role, is_verified], and for accounts
                    \* made by signup also [email, username, mobile_number,
                    \* password]
    rides,          \* table rides: id -> [driver_id, available_seats, price_per_seat]
    bookings,       \* table bookings: set of rows
    nextRideId,     \* next fresh Ride.id
    nextBookingId,  \* next fresh Booking.id
    req,            \* in-flight POST /{ride_id}/book requests
    initialSeats,   \* history: available_seats of each ride when it was created
    now,            \* the server clock
    tokens,         \* the JWTs minted so far: jti -> [refresh, exp, user]
    revoked,        \* the revocation store: jtis blacklisted
    areq,           \* in-flight calls to token-protected endpoints
    loggedOut,      \* history: the jtis logout has revoked
    minted,         \* history: what each token was created from, and when
    urlTokens,      \* the URL-safe tokens issued so far: [email, iat]
    outbox,         \* the e-mails handed to the background mailer
    sreq,           \* in-flight POST /auth/signup requests
    lreq,           \* in-flight requests that present an e-mailed link
    ereq,           \* in-flight profile-edit requests
    listing         \* the last answer of GET /rides: [destination, result]

bookingVars == <<users, rides, bookings, nextRideId, nextBookingId, req, initialSeats>>
authVars == <<now, tokens, revoked, areq, loggedOut, minted>>
accountVars == <<urlTokens, outbox, sreq, lreq>>
otherVars == <<ereq, listing>>
rideVars == <<rides, bookings, nextRideId, nextBookingId, req, initialSeats>>
vars == <<users, rides, bookings, nextRideId, nextBookingId, req, initialSeats,
          now, tokens, revoked, areq, loggedOut, minted,
          urlTokens, outbox, sreq, lreq, ereq, listing>>

----------------------------------------------------------------------------
(* Tables *)

\* the users the database is seeded with: one verified driver, the rest
\* verified passengers
SeedUsers ==
    [u \in Users |-> [role |-> IF u = 1 THEN "driver" ELSE "passenger",
                      is_verified |-> TRUE]]

\* RideCreate: available_seats ge=0, price_per_seat gt=0
RideCreateValid(seats, price) == seats >= 0 /\ price > 0

\* variant: the role is not compared
RoleChecker_anyRole(allowed_roles, u) ==
    IF ~users[u].is_verified THEN "AccountNotVerifiedException" ELSE "ok"

\* RoleChecker.__call__
RoleChecker(allowed_roles, u) ==
    IF ~users[u].is_verified THEN "AccountNotVerifiedException"
    ELSE IF users[u].role \in allowed_roles THEN "ok"
    ELSE "PermissionRequiredException"

\* Booking(...) as book_a_ride builds it
NewBooking(id, ride_id, passenger_id, price_per_seat) ==
    [id |-> id, ride_id |-> ride_id, passenger_id |-> passenger_id,
     seats_booked |-> 1, total_price |-> price_per_seat, status |-> "pending"]

BookingsOf(r) == {b \in bookings : b.ride_id = r}
BookingsOfPair(r, u) == {b \in bookings : b.ride_id = r /\ b.passenger_id = u}

----------------------------------------------------------------------------
(* book_a_ride, per request *)

\* user, ride_id: the call's arguments; found: the ride query returned a row
\* (`ride` is not None); seats, price: the session's copy of that row; result: what the call returned or raised;
\* held0 (history): the passenger already had a Booking row on the ride when
\* the call began
IdleReq ==
    [pc |-> "idle", user |-> 0, ride_id |-> 0, found |-> FALSE,
     seats |-> 0, price |-> 0, result |-> "none", held0 |-> FALSE]

\* `if not result`: result is the Result object db.execute returned, which is
\* truthy whether or not the query matched a row
ResultIsFalsy(found) == FALSE

\* variant: the comparison only catches a count that is already negative
SeatsExhausted_neg(seats) == seats < 0

\* `if ride.available_seats == 0`
SeatsExhausted(seats) == seats = 0

\* `ride.available_seats -= 1` on the session's copy of the row; the flush
\* writes the resulting value
DecrementSeats(seats) == seats - 1

\* variant: the seat check is left out
RideChecks_noSeatCheck(found, driver_id, seats, user) ==
    IF ResultIsFalsy(found) THEN "RideNotFoundException"
    ELSE IF ~found THEN "AttributeError"
    ELSE IF driver_id = user THEN "DriverCannotBookRideException"
    ELSE "continue"

\* variant: the seat check runs before the driver check
RideChecks_seatsFirst(found, driver_id, seats, user) ==
    IF ResultIsFalsy(found) THEN "RideNotFoundException"
    ELSE IF ~found THEN "AttributeError"
    ELSE IF SeatsExhausted(seats) THEN "NoSeatsLeftException"
    ELSE IF driver_id = user THEN "DriverCannotBookRideException"
    ELSE "continue"

\* the synchronous stretch of book_a_ride between the ride query and the
\* duplicate query
RideChecks(found, driver_id, seats, user) ==
    IF ResultIsFalsy(found) THEN "RideNotFoundException"
    ELSE IF ~found THEN "AttributeError"
    ELSE IF driver_id = user THEN "DriverCannotBookRideException"
    ELSE IF SeatsExhausted(seats) THEN "NoSeatsLeftException"
    ELSE "continue"

\* get_current_user resolved `u`, the path carries `r`;
\* await db.execute(q_stmt) and the checks up to the next await
FetchRide(q, u, r) ==
    /\ req[q].pc = "idle"
    /\ LET found == r \in DOMAIN rides
           seats == IF found THEN rides[r].available_seats ELSE 0
           price == IF found THEN rides[r].price_per_seat ELSE 0
           driver == IF found THEN rides[r].driver_id ELSE 0
           out == RideChecks(found, driver, seats, u)
       IN req' = [req EXCEPT ![q] =
                    [pc |-> IF out = "continue" THEN "dupcheck" ELSE "done",
                     user |-> u, ride_id |-> r, found |-> found,
                     seats |-> seats, price |-> price,
                     result |-> IF out = "continue" THEN "none" ELSE out,
                     held0 |-> BookingsOfPair(r, u) # {}]]
    /\ UNCHANGED <<users, rides, bookings, nextRideId, nextBookingId, initialSeats>>
    /\ UNCHANGED authVars
    /\ UNCHANGED accountVars
    /\ UNCHANGED otherVars

\* variant: the duplicate query matches nothing
HasExistingBooking_never(r, u) == FALSE

\* `existing_booking.scalars().first()` of
\* select(Booking).where(ride_id == ride_id, passenger_id == user.id)
HasExistingBooking(r, u) == BookingsOfPair(r, u) # {}

\* await db.execute(booking_stmt); then db.add(new_booking) and the
\* decrement of the session's ride object
CheckExistingBooking(q) ==
    /\ req[q].pc = "dupcheck"
    /\ IF HasExistingBooking(req[q].ride_id, req[q].user)
       THEN req' = [req EXCEPT ![q].pc = "done",
                               ![q].result = "BookingAlreadyExistsException"]
       ELSE req' = [req EXCEPT ![q].pc = "commit",
                               ![q].seats = DecrementSeats(req[q].seats)]
    /\ UNCHANGED <<users, rides, bookings, nextRideId, nextBookingId, initialSeats>>
    /\ UNCHANGED authVars
    /\ UNCHANGED accountVars
    /\ UNCHANGED otherVars

\* await db.commit(): one transaction, INSERT INTO bookings and
\* UPDATE rides SET available_seats = <the session's value>.  The schema has
\* no constraint this transaction can violate (Booking.id is a fresh uuid,
\* no unique key on (ride_id, passenger_id), no CHECK on available_seats),
\* so the IntegrityError branch is not taken.
CommitBooking(q) ==
    /\ req[q].pc = "commit"
    /\ bookings' = bookings \cup
          {NewBooking(nextBookingId, req[q].ride_id, req[q].user, req[q].price)}
    /\ nextBookingId' = nextBookingId + 1
    /\ rides' = [rides EXCEPT ![req[q].ride_id].available_seats = req[q].seats]
    /\ req' = [req EXCEPT ![q].pc = "done", ![q].result = "RideResponse"]
    /\ UNCHANGED <<users, nextRideId, initialSeats>>
    /\ UNCHANGED authVars
    /\ UNCHANGED accountVars
    /\ UNCHANGED otherVars

----------------------------------------------------------------------------
(* share_current_users_ride behind POST /rides/new-ride (drivers_only) *)

ShareRide(u, seats, price) ==
    /\ RoleChecker({"driver"}, u) = "ok"
    /\ RideCreateValid(seats, price)
    /\ nextRideId <= MaxRides
    /\ rides' = rides @@ (nextRideId :>
                  [driver_id |-> u, available_seats |-> seats,
                   price_per_seat |-> price])
    /\ initialSeats' = initialSeats @@ (nextRideId :> seats)
    /\ nextRideId' = nextRideId + 1
    /\ UNCHANGED <<users, bookings, nextBookingId, req>>
    /\ UNCHANGED authVars
    /\ UNCHANGED accountVars
    /\ UNCHANGED otherVars

----------------------------------------------------------------------------
(* Bearer tokens, the revocation store and the token gate *)

\* the next fresh jti (uuid4 in create_access_token)
NextJti == Cardinality(DOMAIN tokens) + 1

\* create_access_token: the payload carries the user claims, the expiry, a
\* fresh jti and the refresh flag
create_access_token(user, ttl, refresh) ==
    [user |-> user, exp |-> now + ttl, refresh |-> refresh]

\* the payload of the token minted with this jti
Payload(jti) ==
    [jti |-> jti, user |-> tokens[jti].user, exp |-> tokens[jti].exp,
     refresh |-> tokens[jti].refresh]

\* None, as verify_access_token returns it
NoTokenData == [jti |-> 0, user |-> 0, exp |-> 0, refresh |-> FALSE]

\* a string that is not a JWT of this server: a URL-safe token
UrlSafeString == 0

\* jwt.decode(token, JWT_SECRET, [JWT_ALGORITHM]): the signature is verified
\* first, then exp (expired when exp <= now).  `jti` names the string that is
\* presented, `intact` is FALSE when its bytes were altered after signing.
jwt_decode(jti, intact) ==
    IF jti = UrlSafeString THEN "DecodeError"
    ELSE IF ~intact THEN "InvalidSignatureError"
    ELSE IF tokens[jti].exp <= now THEN "ExpiredSignatureError"
    ELSE "ok"

\* variant: an expired token is reported apart from a bad signature
verify_access_token_tellsExpired(jti, intact) ==
    IF jwt_decode(jti, intact) = "ok" THEN Payload(jti)
    ELSE IF jwt_decode(jti, intact) = "ExpiredSignatureError"
         THEN [jti |-> 0, user |-> 0, exp |-> -1, refresh |-> FALSE]
    ELSE NoTokenData

\* variant: a token still verifies in the second its exp names
verify_access_token_lateExpiry(jti, intact) ==
    IF jwt_decode(jti, intact) = "ok"
       \/ (jwt_decode(jti, intact) = "ExpiredSignatureError" /\ tokens[jti].exp = now)
    THEN Payload(jti) ELSE NoTokenData

\* verify_access_token: every jwt.PyJWTError is caught and None is returned;
\* otherwise the payload
verify_access_token(jti, intact) ==
    IF jwt_decode(jti, intact) = "ok" THEN Payload(jti) ELSE NoTokenData

\* token_in_blacklist(jti): key-existence lookup in the revocation store
token_in_blacklist(jti) == jti \in revoked

\* add_token_to_blacklist(jti): the store gains the key jti
add_token_to_blacklist(jti) == revoked \cup {jti}

\* variant: every token counts as valid
token_valid_always(jti, intact) == TRUE

\* TokenBearer.token_valid
token_valid(jti, intact) == verify_access_token(jti, intact) # NoTokenData

\* variant: the refresh bearer takes any token
BearerTypeCheck_accessOnly(bearer, jti) ==
    IF bearer = "access" /\ tokens[jti].refresh THEN "AccessTokenRequiredException"
    ELSE "ok"

\* variant: every bearer takes both types
BearerTypeCheck_anyType(bearer, jti) == "ok"

\* AccessTokenBearer.verify_access_token / RefreshTokenBearer.verify_access_token
BearerTypeCheck(bearer, jti) ==
    IF bearer = "access" /\ tokens[jti].refresh THEN "AccessTokenRequiredException"
    ELSE IF bearer = "refresh" /\ ~tokens[jti].refresh THEN "RefreshTokenRequiredException"
    ELSE "ok"

\* variant: the token type is checked before the blacklist
TokenBearerCall_typeFirst(bearer, jti, intact) ==
    IF ~token_valid(jti, intact) THEN "InvalidTokenException"
    ELSE IF BearerTypeCheck(bearer, jti) # "ok" THEN BearerTypeCheck(bearer, jti)
    ELSE IF token_in_blacklist(jti) THEN "RevokedTokenException"
    ELSE "ok"

\* variant: the blacklist lookup is left out
TokenBearerCall_noBlacklist(bearer, jti, intact) ==
    IF ~token_valid(jti, intact) THEN "InvalidTokenException"
    ELSE BearerTypeCheck(bearer, jti)

\* TokenBearer.__call__ for a request that carries a bearer token
TokenBearerCall(bearer, jti, intact) ==
    IF ~token_valid(jti, intact) THEN "InvalidTokenException"
    ELSE IF token_in_blacklist(jti) THEN "RevokedTokenException"
    ELSE BearerTypeCheck(bearer, jti)

\* the bearer each endpoint depends on
BearerOf(endpoint) == IF endpoint = "refresh_token" THEN "refresh" ELSE "access"

Endpoints == {"logout", "refresh_token", "user_me"}

\* the status the registered exception handlers answer with
StatusOf(exc) ==
    CASE exc = "AccessTokenRequiredException" -> 403
      [] exc = "InvalidTokenException" -> 401
      [] exc = "RefreshTokenRequiredException" -> 401
      [] exc = "RevokedTokenException" -> 401
      [] exc = "UserAlreadyExistsException" -> 409
      [] exc = "UsernameAlreadyExistsException" -> 409
      [] exc = "UserNotFoundException" -> 404
      [] exc = "DestinationNotFoundException" -> 404
      [] exc = "PasswordIsShortException" -> 400
      [] exc = "PasswordsDontMatchException" -> 400
      [] exc = "HTTPException400" -> 400
      [] exc = "HTTPException403" -> 403
      [] exc = "AttributeError" -> 500
      [] exc = "CreatedUserResponse" -> 201
      [] OTHER -> 200

\* history record of one create_access_token call
Minted(user, ttl, refresh) ==
    [user |-> user, ttl |-> ttl, refresh |-> refresh, iat |-> now,
     store |-> revoked]

----------------------------------------------------------------------------
(* Routing: the middleware and the bearer dependency of each route *)

\* the routes of the auth router
Routes ==
    {"login", "signup", "request_verification_link", "verify",
     "reset_password", "confirm_reset_password", "refresh_token", "user_me",
     "logout"}

\* the path of each route, as its segments below /api/v1/auth
PathOf(route) ==
    CASE route = "login" -> <<"login">>
      [] route = "signup" -> <<"signup">>
      [] route = "request_verification_link" -> <<"request-verification-link">>
      [] route = "verify" -> <<"verify", "key">>
      [] route = "reset_password" -> <<"reset-password">>
      [] route = "confirm_reset_password" -> <<"confirm-reset-password", "key">>
      [] route = "refresh_token" -> <<"refresh-token">>
      [] route = "user_me" -> <<"user", "me">>
      [] route = "logout" -> <<"logout">>

\* CustomAuthMiddleWare.dispatch: allowed_paths below /api/v1/auth
allowed_paths ==
    {<<"login">>, <<"signup">>, <<"request-verification-link">>, <<"verify">>,
     <<"reset-password">>, <<"confirm-reset-password">>}

\* path.startswith(prefix)
StartsWith(path, prefix) ==
    /\ Len(prefix) <= Len(path)
    /\ SubSeq(path, 1, Len(prefix)) = prefix

\* any(request.url.path.startswith(path) for path in allowed_paths)
MiddlewareAllows(route) ==
    \E prefix \in allowed_paths : StartsWith(PathOf(route), prefix)

\* the bearer dependency in each handler's signature
BearerDep(route) ==
    IF route = "refresh_token" THEN "refresh"
    ELSE IF route \in {"user_me", "logout", "reset_password"} THEN "access"
    ELSE "none"

\* a request that carries no Authorization header
NoCredentials == -1

\* what a request without Authorization header meets on its way to the
\* handler: the middleware answers 401 unless the path is allowed, then
\* HTTPBearer (auto_error) of the handler's bearer dependency refuses
NoTokenOutcome(route) ==
    IF ~MiddlewareAllows(route) THEN "MiddlewareNotAuthenticated"
    ELSE IF BearerDep(route) # "none" THEN "BearerNotAuthenticated"
    ELSE "handler"

IdleAReq ==
    [pc |-> "idle", endpoint |-> "none", jti |-> 0, intact |-> FALSE,
     result |-> "none", afterRevoke |-> FALSE]

\* POST /auth/login with valid credentials of user u: an access token and a
\* refresh token are minted
Login(u) ==
    /\ NoTokenOutcome("login") = "handler"
    /\ u \in DOMAIN users
    /\ NextJti + 1 <= MaxJti
    /\ tokens' = tokens @@ (NextJti :> create_access_token(u, AccessTTL, FALSE))
                        @@ ((NextJti + 1) :> create_access_token(u, RefreshTTL, TRUE))
    /\ minted' = minted @@ (NextJti :> Minted(u, AccessTTL, FALSE))
                        @@ ((NextJti + 1) :> Minted(u, RefreshTTL, TRUE))
    /\ UNCHANGED <<now, revoked, areq, loggedOut>>
    /\ UNCHANGED bookingVars
    /\ UNCHANGED accountVars
    /\ UNCHANGED otherVars

\* a request to a route of the auth router arrives without Authorization
\* header; with outcome "handler" the route's handler serves it
NoTokenRequest(q, route) ==
    /\ areq[q].pc = "idle"
    /\ areq' = [areq EXCEPT ![q] =
                  [pc |-> "done", endpoint |-> route, jti |-> NoCredentials,
                   intact |-> FALSE, result |-> NoTokenOutcome(route),
                   afterRevoke |-> FALSE]]
    /\ UNCHANGED <<now, tokens, revoked, loggedOut, minted>>
    /\ UNCHANGED bookingVars
    /\ UNCHANGED accountVars
    /\ UNCHANGED otherVars

\* a request to a protected endpoint arrives with a minted token (possibly
\* altered) and runs the endpoint's bearer dependency
Gate(q, endpoint, jti, intact) ==
    /\ areq[q].pc = "idle"
    /\ \/ jti \in DOMAIN tokens
       \/ jti = UrlSafeString /\ urlTokens # {}
    /\ LET out == TokenBearerCall(BearerOf(endpoint), jti, intact)
       IN areq' = [areq EXCEPT ![q] =
                     [pc |-> IF out = "ok" THEN "passed" ELSE "done",
                      endpoint |-> endpoint, jti |-> jti, intact |-> intact,
                      result |-> IF out = "ok" THEN "none" ELSE out,
                      afterRevoke |-> jti \in loggedOut]]
    /\ UNCHANGED <<now, tokens, revoked, loggedOut, minted>>
    /\ UNCHANGED bookingVars
    /\ UNCHANGED accountVars
    /\ UNCHANGED otherVars

\* variant: a jti that is already in the store is refused
Logout_refusesRepeat(q) ==
    /\ areq[q].pc = "passed" /\ areq[q].endpoint = "logout"
    /\ revoked' = add_token_to_blacklist(areq[q].jti)
    /\ loggedOut' = loggedOut \cup {areq[q].jti}
    /\ areq' = [areq EXCEPT ![q].pc = "done",
                            ![q].result = IF token_in_blacklist(areq[q].jti)
                                          THEN "HTTPException" ELSE "ok"]
    /\ UNCHANGED <<now, tokens, minted>>
    /\ UNCHANGED bookingVars
    /\ UNCHANGED accountVars
    /\ UNCHANGED otherVars

\* logout: add_token_to_blacklist(token_details["jti"])
Logout(q) ==
    /\ areq[q].pc = "passed" /\ areq[q].endpoint = "logout"
    /\ revoked' = add_token_to_blacklist(areq[q].jti)
    /\ loggedOut' = loggedOut \cup {areq[q].jti}
    /\ areq' = [areq EXCEPT ![q].pc = "done", ![q].result = "ok"]
    /\ UNCHANGED <<now, tokens, minted>>
    /\ UNCHANGED bookingVars
    /\ UNCHANGED accountVars
    /\ UNCHANGED otherVars

\* refresh_token: a new access token while the refresh token's exp lies ahead
RefreshToken(q) ==
    /\ areq[q].pc = "passed" /\ areq[q].endpoint = "refresh_token"
    /\ IF tokens[areq[q].jti].exp > now
       THEN /\ NextJti <= MaxJti
            /\ tokens' = tokens @@
                 (NextJti :> create_access_token(tokens[areq[q].jti].user, AccessTTL, FALSE))
            /\ minted' = minted @@
                 (NextJti :> Minted(tokens[areq[q].jti].user, AccessTTL, FALSE))
            /\ areq' = [areq EXCEPT ![q].pc = "done", ![q].result = "ok"]
       ELSE /\ tokens' = tokens
            /\ minted' = minted
            /\ areq' = [areq EXCEPT ![q].pc = "done",
                                    ![q].result = "InvalidTokenException"]
    /\ UNCHANGED <<now, revoked, loggedOut>>
    /\ UNCHANGED bookingVars
    /\ UNCHANGED accountVars
    /\ UNCHANGED otherVars

\* get_user_details: returns the user the token resolves to
UserMe(q) ==
    /\ areq[q].pc = "passed" /\ areq[q].endpoint = "user_me"
    /\ areq' = [areq EXCEPT ![q].pc = "done", ![q].result = "ok"]
    /\ UNCHANGED <<now, tokens, revoked, loggedOut, minted>>
    /\ UNCHANGED bookingVars
    /\ UNCHANGED accountVars
    /\ UNCHANGED otherVars

\* time passes
Tick ==
    /\ now < MaxTime
    /\ now' = now + 1
    /\ UNCHANGED <<tokens, revoked, areq, loggedOut, minted>>
    /\ UNCHANGED bookingVars
    /\ UNCHANGED accountVars
    /\ UNCHANGED otherVars

----------------------------------------------------------------------------
(* Accounts: signup and the links sent by e-mail *)

\* pwd_context.hash / pwd_context.verify (bcrypt)
get_password_hash(password) == <<"bcrypt", password>>
verify_password(plain_password, hashed_password) ==
    hashed_password = get_password_hash(plain_password)

\* variant: only the username column is compared
get_user_email_usernameOnly(credentials) ==
    {id \in DOMAIN users : users[id].username = credentials}

\* AuthService.get_user_email: the rows whose email or username equals the
\* given string (the caller takes the first of them)
get_user_email(credentials) ==
    {id \in DOMAIN users :
        users[id].email = credentials \/ users[id].username = credentials}

\* AuthService.user_exists
user_exists(email) == get_user_email(email) # {}

\* the row create_user_account adds: role and is_verified take the column
\* defaults
NewUser(email, username, mobile, password) ==
    [email |-> email, username |-> username, mobile_number |-> mobile,
     password |-> get_password_hash(password),
     role |-> "passenger", is_verified |-> FALSE]

\* the UNIQUE constraints of table users
UniqueViolation(row) ==
    \E id \in DOMAIN users :
        \/ users[id].email = row.email
        \/ users[id].username = row.username
        \/ users[id].mobile_number = row.mobile_number

\* the next fresh User.id
NextUserId == Cardinality(DOMAIN users) + 1

\* create_url_safe_token: serializer.dumps signs the data together with the
\* time of signing
create_url_safe_token(data) == [email |-> data.email, iat |-> now]

\* None, as decode_url_safe_token returns it
NoUrlData == [email |-> "None"]

\* a bearer JWT presented where a URL-safe token is expected; its bytes are
\* never read past the signature check
BearerAsKey == [email |-> "", iat |-> 0]

\* variant: the string is loaded whatever signed it
decode_url_safe_token_anySigner(kind, key, intact) ==
    IF intact /\ now - key.iat <= UrlMaxAge
    THEN [email |-> key.email] ELSE NoUrlData

\* decode_url_safe_token: serializer.loads raises (and None is returned) when
\* the string was not signed by the serializer, was altered, or is older than
\* max_age; otherwise the data.  `kind` tells what the presented string is.
decode_url_safe_token(kind, key, intact) ==
    IF kind = "url" /\ intact /\ now - key.iat <= UrlMaxAge
    THEN [email |-> key.email] ELSE NoUrlData

IdleSReq ==
    [pc |-> "idle", email |-> "", username |-> "", mobile |-> "",
     result |-> "none", fresh0 |-> FALSE, taken0 |-> FALSE]

SignupPassword == "longpassword"

\* create_user_account up to its first await: user_exists(user.email).
\* fresh0 and taken0 record whether the email was unused and the username in
\* use when the request arrived.
SignupCheck(q, email, username, mobile) ==
    /\ NoTokenOutcome("signup") = "handler"
    /\ sreq[q].pc = "idle"
    /\ sreq' = [sreq EXCEPT ![q] =
          [pc |-> IF user_exists(email) THEN "done" ELSE "insert",
           email |-> email, username |-> username, mobile |-> mobile,
           result |-> IF user_exists(email)
                      THEN "UserAlreadyExistsException" ELSE "none",
           fresh0 |-> \A id \in DOMAIN users : users[id].email # email,
           taken0 |-> \E id \in DOMAIN users : users[id].username = username]]
    /\ UNCHANGED <<users, urlTokens, outbox, lreq>>
    /\ UNCHANGED <<rideVars, authVars>>
    /\ UNCHANGED otherVars

\* db.add(db_user); await db.commit(): the INSERT, or IntegrityError, rollback
\* and HTTPException 400 ("UNIQUE constraint failed", the SQLite wording)
SignupCommit(q) ==
    /\ sreq[q].pc = "insert"
    /\ LET row == NewUser(sreq[q].email, sreq[q].username, sreq[q].mobile,
                          SignupPassword)
       IN IF UniqueViolation(row)
          THEN /\ users' = users
               /\ sreq' = [sreq EXCEPT ![q].pc = "done",
                                       ![q].result = "HTTPException400"]
          ELSE /\ users' = users @@ (NextUserId :> row)
               /\ sreq' = [sreq EXCEPT ![q].pc = "created"]
    /\ UNCHANGED <<urlTokens, outbox, lreq>>
    /\ UNCHANGED <<rideVars, authVars>>
    /\ UNCHANGED otherVars

\* after await db.refresh(db_user): the router signs the verification token,
\* hands the e-mail to the background mailer and answers 201
SignupRespond(q) ==
    /\ sreq[q].pc = "created"
    /\ LET private_key == create_url_safe_token([email |-> sreq[q].email])
       IN /\ urlTokens' = urlTokens \cup {private_key}
          /\ outbox' = outbox \cup
                {[to |-> sreq[q].email, template |-> "email-verification.html",
                  key |-> private_key]}
    /\ sreq' = [sreq EXCEPT ![q].pc = "done", ![q].result = "CreatedUserResponse"]
    /\ UNCHANGED <<users, lreq>>
    /\ UNCHANGED <<rideVars, authVars>>
    /\ UNCHANGED otherVars

IdleLReq ==
    [pc |-> "idle", route |-> "none", kind |-> "none", email |-> "", iat |-> 0,
     intact |-> FALSE, result |-> "none"]

\* variant: a key that an answered request has presented is spent
KeyOutcome_singleUse(kind, key, intact) ==
    IF \/ decode_url_safe_token(kind, key, intact) = NoUrlData
       \/ \E p \in LReqs : /\ lreq[p].pc = "done"
                            /\ lreq[p].email = key.email
                            /\ lreq[p].iat = key.iat
    THEN "AttributeError"
    ELSE IF get_user_email(decode_url_safe_token(kind, key, intact).email) = {}
         THEN "UserNotFoundException"
    ELSE "ok"

\* what became of the presented key in verify_email and
\* confirm_reset_password: None has no .get, an unknown email is not found
KeyOutcome(kind, key, intact) ==
    IF decode_url_safe_token(kind, key, intact) = NoUrlData THEN "AttributeError"
    ELSE IF get_user_email(decode_url_safe_token(kind, key, intact).email) = {}
         THEN "UserNotFoundException"
    ELSE "ok"

LinkRecord(route, kind, key, intact, result) ==
    [pc |-> "done", route |-> route, kind |-> kind, email |-> key.email,
     iat |-> key.iat, intact |-> intact, result |-> result]

\* GET /auth/verify/{user_private_key}: the account the key names becomes
\* verified.  The row is read and written with nothing but awaits of this
\* request in between, and no other request deletes it or writes
\* is_verified = FALSE, so the handler is one step.
VerifyEmail(q, kind, key, intact) ==
    /\ NoTokenOutcome("verify") = "handler"
    /\ lreq[q].pc = "idle"
    /\ LET out == KeyOutcome(kind, key, intact) IN
       IF out = "ok"
       THEN /\ \E id \in get_user_email(decode_url_safe_token(kind, key, intact).email) :
                 users' = [users EXCEPT ![id].is_verified = TRUE]
            /\ lreq' = [lreq EXCEPT ![q] =
                          LinkRecord("verify", kind, key, intact, "verified")]
       ELSE /\ users' = users
            /\ lreq' = [lreq EXCEPT ![q] =
                          LinkRecord("verify", kind, key, intact, out)]
    /\ UNCHANGED <<urlTokens, outbox, sreq>>
    /\ UNCHANGED <<rideVars, authVars>>
    /\ UNCHANGED otherVars

\* variant: a password reset also puts the user's tokens into the
\* revocation store
ConfirmResetPassword_revokesTokens(q, kind, key, intact, pair) ==
    /\ NoTokenOutcome("confirm_reset_password") = "handler"
    /\ lreq[q].pc = "idle"
    /\ LET new_password == pair[1]
           confirm_password == pair[2]
           out == IF Len(new_password) < 8 THEN "PasswordIsShortException"
                  ELSE IF confirm_password # new_password
                       THEN "PasswordsDontMatchException"
                  ELSE KeyOutcome(kind, key, intact)
       IN
       IF out = "ok"
       THEN /\ \E id \in get_user_email(decode_url_safe_token(kind, key, intact).email) :
                 /\ users' = [users EXCEPT
                                ![id].password = get_password_hash(new_password)]
                 /\ revoked' = revoked \cup
                                {j \in DOMAIN tokens : tokens[j].user = id}
            /\ lreq' = [lreq EXCEPT ![q] =
                          LinkRecord("confirm_reset_password", kind, key, intact,
                                     "password reset")]
       ELSE /\ users' = users
            /\ revoked' = revoked
            /\ lreq' = [lreq EXCEPT ![q] =
                          LinkRecord("confirm_reset_password", kind, key, intact,
                                     out)]
    /\ UNCHANGED <<urlTokens, outbox, sreq>>
    /\ UNCHANGED <<rideVars, now, tokens, areq, loggedOut, minted>>
    /\ UNCHANGED otherVars

\* POST /auth/confirm-reset-password/{user_private_key}: the passwords are
\* checked before the key is decoded
ConfirmResetPassword(q, kind, key, intact, pair) ==
    /\ NoTokenOutcome("confirm_reset_password") = "handler"
    /\ lreq[q].pc = "idle"
    /\ LET new_password == pair[1]
           confirm_password == pair[2]
           out == IF Len(new_password) < 8 THEN "PasswordIsShortException"
                  ELSE IF confirm_password # new_password
                       THEN "PasswordsDontMatchException"
                  ELSE KeyOutcome(kind, key, intact)
       IN
       IF out = "ok"
       THEN /\ \E id \in get_user_email(decode_url_safe_token(kind, key, intact).email) :
                 users' = [users EXCEPT
                             ![id].password = get_password_hash(new_password)]
            /\ lreq' = [lreq EXCEPT ![q] =
                          LinkRecord("confirm_reset_password", kind, key, intact,
                                     "password reset")]
       ELSE /\ users' = users
            /\ lreq' = [lreq EXCEPT ![q] =
                          LinkRecord("confirm_reset_password", kind, key, intact,
                                     out)]
    /\ UNCHANGED <<urlTokens, outbox, sreq>>
    /\ UNCHANGED <<rideVars, authVars>>
    /\ UNCHANGED otherVars

----------------------------------------------------------------------------

\* POST /auth/request-verification-link for a registered, unverified
\* account: a new link is mailed.  (An unknown email gives
\* UserNotFoundException and a verified account 400; neither changes
\* anything.)
RequestVerificationLink(email) ==
    /\ NoTokenOutcome("request_verification_link") = "handler"
    /\ Cardinality(outbox) < MaxLinks
    /\ get_user_email(email) # {}
    /\ \E id \in get_user_email(email) : ~users[id].is_verified
    /\ LET token == create_url_safe_token([email |-> email])
       IN /\ urlTokens' = urlTokens \cup {token}
          /\ outbox' = outbox \cup
                {[to |-> email, template |-> "email-verification.html",
                  key |-> token]}
    /\ UNCHANGED <<users, sreq, lreq>>
    /\ UNCHANGED <<rideVars, authVars>>
    /\ UNCHANGED otherVars

\* POST /auth/reset-password with access token jti: a reset link for the
\* submitted email is mailed; the email is not looked up
ResetPassword(jti, email) ==
    /\ jti \in DOMAIN tokens
    /\ Cardinality(outbox) < MaxLinks
    /\ TokenBearerCall(BearerDep("reset_password"), jti, TRUE) = "ok"
    /\ tokens[jti].user \in DOMAIN users
    /\ LET private_key == create_url_safe_token([email |-> email])
       IN /\ urlTokens' = urlTokens \cup {private_key}
          /\ outbox' = outbox \cup
                {[to |-> email, template |-> "reset_password.html",
                  key |-> private_key]}
    /\ UNCHANGED <<users, sreq, lreq>>
    /\ UNCHANGED <<rideVars, authVars>>
    /\ UNCHANGED otherVars

\* new passwords a client may submit with a reset link
ResetPairs == {<<"short", "short">>, <<"newpassword", "newpassword">>}

----------------------------------------------------------------------------
(* Profile edit: UserService.update_user_profile behind                    *)
(* PUT /users/profile/{user_id}/edit                                       *)

IdleEReq ==
    [pc |-> "idle", caller |-> 0, user_id |-> 0, username |-> "",
     mobile |-> "", role |-> "", old_username |-> "", old_mobile |-> "",
     result |-> "none"]

\* variant: the path id is not compared with the caller
EditForbidden_never(user_id, caller) == FALSE

\* if user_id != str(user.id)
EditForbidden(user_id, caller) == user_id # caller

\* the mobile number is submitted, differs from the caller's and belongs to
\* a row
MobileInUse(caller, mobile) ==
    /\ mobile # Null
    /\ mobile # users[caller].mobile_number
    /\ \E id \in DOMAIN users : users[id].mobile_number = mobile

\* variant: only the email column is constrained
UpdateViolation_emailOnly(id, row) ==
    \E other \in DOMAIN users \ {id} : users[other].email = row.email

\* value if value is not None else getattr(user, field)
EditedValue(value, current) == IF value # Null THEN value ELSE current

\* the request of authenticated user `caller` up to the commit: the path id
\* is compared, then the mobile number is looked up.  The row the session
\* holds (old_username, old_mobile) is the one get_current_user loaded.
EditCheck(q, caller, user_id, username, mobile) ==
    /\ ereq[q].pc = "idle"
    /\ caller \in DOMAIN users
    /\ ereq' = [ereq EXCEPT ![q] =
          [pc |-> IF EditForbidden(user_id, caller) \/ MobileInUse(caller, mobile)
                  THEN "done" ELSE "commit",
           caller |-> caller, user_id |-> user_id, username |-> username,
           mobile |-> mobile,
           role |-> Null,       \* UpdateUserProfile has no such field
           old_username |-> users[caller].username,
           old_mobile |-> users[caller].mobile_number,
           result |-> IF EditForbidden(user_id, caller) THEN "HTTPException403"
                      ELSE IF MobileInUse(caller, mobile) THEN "HTTPException400"
                      ELSE "none"]]
    /\ UNCHANGED <<users, listing>>
    /\ UNCHANGED <<rideVars, authVars, accountVars>>

\* the caller's row after the UPDATE: the session writes the columns whose
\* value differs from the one it loaded
EditedRow(q) ==
    LET username == EditedValue(ereq[q].username, ereq[q].old_username)
        mobile == EditedValue(ereq[q].mobile, ereq[q].old_mobile)
        row == users[ereq[q].caller]
    IN [row EXCEPT
          !.username = IF username # ereq[q].old_username THEN username ELSE @,
          !.mobile_number = IF mobile # ereq[q].old_mobile THEN mobile ELSE @]

\* the UNIQUE constraints of table users, for an UPDATE of row id
UpdateViolation(id, row) ==
    \E other \in DOMAIN users \ {id} :
        \/ users[other].email = row.email
        \/ users[other].username = row.username
        \/ users[other].mobile_number = row.mobile_number

\* await db.commit(): the UPDATE, or IntegrityError, rollback and
\* HTTPException 400
EditCommit(q) ==
    /\ ereq[q].pc = "commit"
    /\ IF UpdateViolation(ereq[q].caller, EditedRow(q))
       THEN /\ users' = users
            /\ ereq' = [ereq EXCEPT ![q].pc = "done",
                                    ![q].result = "HTTPException400"]
       ELSE /\ users' = [users EXCEPT ![ereq[q].caller] = EditedRow(q)]
            /\ ereq' = [ereq EXCEPT ![q].pc = "done",
                                    ![q].result = "UpdateUserProfileResponse"]
    /\ UNCHANGED listing
    /\ UNCHANGED <<rideVars, authVars, accountVars>>

\* PUT /users/profile/edit of the older application (src/main.py): the
\* form carries a JSON object and every key of it is set on the caller's
\* row; here the keys username, mobile_number and role
EditRoles == {Null, "driver"}

LegacyEditCheck(q, caller, username, mobile, role) ==
    /\ ereq[q].pc = "idle"
    /\ caller \in DOMAIN users
    /\ ereq' = [ereq EXCEPT ![q] =
          [pc |-> IF MobileInUse(caller, mobile) THEN "done" ELSE "legacy commit",
           caller |-> caller, user_id |-> caller, username |-> username,
           mobile |-> mobile, role |-> role,
           old_username |-> users[caller].username,
           old_mobile |-> users[caller].mobile_number,
           result |-> IF MobileInUse(caller, mobile) THEN "HTTPException400"
                      ELSE "none"]]
    /\ UNCHANGED <<users, listing>>
    /\ UNCHANGED <<rideVars, authVars, accountVars>>

\* setattr(current_user, field, value if value is not None else ...)
LegacyEditedRow(q) ==
    [users[ereq[q].caller] EXCEPT
        !.username = EditedValue(ereq[q].username, @),
        !.mobile_number = EditedValue(ereq[q].mobile, @),
        !.role = EditedValue(ereq[q].role, @)]

LegacyEditCommit(q) ==
    /\ ereq[q].pc = "legacy commit"
    /\ IF UpdateViolation(ereq[q].caller, LegacyEditedRow(q))
       THEN /\ users' = users
            /\ ereq' = [ereq EXCEPT ![q].pc = "done",
                                    ![q].result = "HTTPException400"]
       ELSE /\ users' = [users EXCEPT ![ereq[q].caller] = LegacyEditedRow(q)]
            /\ ereq' = [ereq EXCEPT ![q].pc = "done",
                                    ![q].result = "UpdateUserProfile"]
    /\ UNCHANGED listing
    /\ UNCHANGED <<rideVars, authVars, accountVars>>

----------------------------------------------------------------------------
(* Ride search: RideService.get_rides behind GET /rides.  Strings are      *)
(* sequences of characters.                                                *)

\* destinations of stored rides and the values of the query parameter
Destinations == {<<"C", "B", "D">>, <<"c", "b", "d", "_", "2">>, <<"R", "u", "i">>}
Filters == {Null, <<"c", "b">>, <<"B", "D">>, <<"_">>, <<"%">>, <<"r", "u", "a">>}

\* str.lower() and SQL lower() on the letters in use
LowerChar(c) ==
    CASE c = "B" -> "b"
      [] c = "C" -> "c"
      [] c = "D" -> "d"
      [] c = "R" -> "r"
      [] OTHER -> c

Lower(str) == [i \in DOMAIN str |-> LowerChar(str[i])]

\* SQL ILIKE: % stands for any run of characters, _ for any one character,
\* letters compare without case
RECURSIVE ILike(_, _)
ILike(str, pattern) ==
    IF pattern = <<>> THEN str = <<>>
    ELSE IF Head(pattern) = "%"
         THEN \/ ILike(str, Tail(pattern))
              \/ str # <<>> /\ ILike(Tail(str), pattern)
    ELSE IF str = <<>> THEN FALSE
    ELSE /\ \/ Head(pattern) = "_"
            \/ LowerChar(Head(pattern)) = LowerChar(Head(str))
         /\ ILike(Tail(str), Tail(pattern))

\* func.lower(Ride.destination).ilike(f"%{destination.lower()}%") and
\* Ride.available_seats > 0
RideMatches(r, destination) ==
    /\ ILike(Lower(rides[r].destination), <<"%">> \o Lower(destination) \o <<"%">>)
    /\ rides[r].available_seats > 0

\* GET /rides?destination=... by a verified passenger
GetRides(u, destination) ==
    /\ RoleChecker({"passenger"}, u) = "ok"
    /\ listing' =
          IF destination = Null
          THEN [destination |-> Null, result |-> {},
                error |-> "DestinationNotFoundException"]
          ELSE [destination |-> destination,
                result |-> {r \in DOMAIN rides : RideMatches(r, destination)},
                error |-> "none"]
    /\ UNCHANGED <<users, ereq>>
    /\ UNCHANGED <<rideVars, authVars, accountVars>>

\* everything but the users table and the issued links
InitOther ==
    /\ rides = <<>>
    /\ bookings = {}
    /\ nextRideId = 1
    /\ nextBookingId = 1
    /\ req = [q \in Reqs |-> IdleReq]
    /\ initialSeats = <<>>
    /\ now = 0
    /\ tokens = <<>>
    /\ revoked = {}
    /\ areq = [q \in AReqs |-> IdleAReq]
    /\ loggedOut = {}
    /\ minted = <<>>
    /\ sreq = [q \in SReqs |-> IdleSReq]
    /\ lreq = [q \in LReqs |-> IdleLReq]
    /\ ereq = [q \in EReqs |-> IdleEReq]
    /\ listing = [destination |-> Null, result |-> {}, error |-> "none"]

Init ==
    /\ users = SeedUsers
    /\ urlTokens = {}
    /\ outbox = {}
    /\ InitOther

\* an empty users table
SignupInit ==
    /\ users = <<>>
    /\ urlTokens = {}
    /\ outbox = {}
    /\ InitOther

\* one account fresh from signup: not yet verified, its verification link
\* signed at time 0 and handed to the mailer
LinkInit ==
    /\ users = (1 :> NewUser("ann@x.io", "ann", "0711", SignupPassword))
    /\ urlTokens = {[email |-> "ann@x.io", iat |-> 0]}
    /\ outbox = {[to |-> "ann@x.io", template |-> "email-verification.html",
                  key |-> [email |-> "ann@x.io", iat |-> 0]]}
    /\ InitOther

Next ==
    \/ \E u \in Users, s \in SeatInputs, p \in PriceInputs : ShareRide(u, s, p)
    \/ \E q \in Reqs, u \in Users, r \in RideIds : FetchRide(q, u, r)
    \/ \E q \in Reqs : CheckExistingBooking(q)
    \/ \E q \in Reqs : CommitBooking(q)

\* the booking engine
Spec == Init /\ [][Next]_vars

AuthNext ==
    \/ \E u \in Users : Login(u)
    \/ \E q \in AReqs, e \in Endpoints, j \in Jtis, i \in BOOLEAN : Gate(q, e, j, i)
    \/ \E q \in AReqs : Logout(q)
    \/ \E q \in AReqs : RefreshToken(q)
    \/ \E q \in AReqs : UserMe(q)
    \/ Tick

\* the token gate and the revocation store
AuthSpec == Init /\ [][AuthNext]_vars

RouteNext ==
    \/ \E q \in AReqs, r \in Routes : NoTokenRequest(q, r)
    \/ \E u \in Users : Login(u)
    \/ Tick

\* requests that carry no token
RouteSpec == Init /\ [][RouteNext]_vars

SignupNext ==
    \/ \E q \in SReqs, e \in EmailInputs, n \in UsernameInputs, m \in MobileInputs :
          SignupCheck(q, e, n, m)
    \/ \E q \in SReqs : SignupCommit(q)
    \/ \E q \in SReqs : SignupRespond(q)

\* account creation
SignupSpec == SignupInit /\ [][SignupNext]_vars

\* the ids of the users who edit, and the ids a client may put in the path
UserIds == 1..NumEditors

ProfileNext ==
    \/ SignupNext
    \/ \E q \in EReqs, c \in UserIds, id \in UserIds,
          n \in EditUsernames, m \in EditMobiles : EditCheck(q, c, id, n, m)
    \/ \E q \in EReqs : EditCommit(q)

\* account creation and profile edits
ProfileSpec == SignupInit /\ [][ProfileNext]_vars

LegacyProfileNext ==
    \/ SignupNext
    \/ \E q \in EReqs, c \in UserIds, n \in EditUsernames, m \in EditMobiles,
          r \in EditRoles : LegacyEditCheck(q, c, n, m, r)
    \/ \E q \in EReqs : LegacyEditCommit(q)

\* account creation and the profile edit of the older application
LegacyProfileSpec == SignupInit /\ [][LegacyProfileNext]_vars

\* the rides a driver has shared so far, not yet booked
ListInit ==
    /\ users = SeedUsers
    /\ urlTokens = {}
    /\ outbox = {}
    /\ rides \in [RideIds -> [driver_id : {1}, available_seats : 0..MaxSeats,
                             price_per_seat : {10}, destination : Destinations]]
    /\ initialSeats = [r \in RideIds |-> rides[r].available_seats]
    /\ nextRideId = MaxRides + 1
    /\ bookings = {}
    /\ nextBookingId = 1
    /\ req = [q \in Reqs |-> IdleReq]
    /\ now = 0
    /\ tokens = <<>>
    /\ revoked = {}
    /\ areq = [q \in AReqs |-> IdleAReq]
    /\ loggedOut = {}
    /\ minted = <<>>
    /\ sreq = [q \in SReqs |-> IdleSReq]
    /\ lreq = [q \in LReqs |-> IdleLReq]
    /\ ereq = [q \in EReqs |-> IdleEReq]
    /\ listing = [destination |-> Null, result |-> {}, error |-> "none"]

ListNext == \E u \in Users, d \in Filters : GetRides(u, d)

\* ride search over a stored table
ListSpec == ListInit /\ [][ListNext]_vars

ResetNext ==
    \/ \E u \in Users : Login(u)
    \/ \E e \in EmailInputs : RequestVerificationLink(e)
    \/ \E j \in Jtis, e \in EmailInputs : ResetPassword(j, e)
    \/ \E q \in LReqs, k \in urlTokens : VerifyEmail(q, "url", k, TRUE)
    \/ \E q \in LReqs, k \in urlTokens, p \in ResetPairs :
          ConfirmResetPassword(q, "url", k, TRUE, p)
    \/ Tick

\* the links of the three issuing flows and the two endpoints that take them
ResetSpec == LinkInit /\ [][ResetNext]_vars

SessionNext ==
    \/ \E u \in Users : Login(u)
    \/ \E q \in AReqs, j \in Jtis : Gate(q, "logout", j, TRUE)
    \/ \E q \in AReqs : Logout(q)
    \/ \E e \in EmailInputs : RequestVerificationLink(e)
    \/ \E q \in LReqs, k \in urlTokens, p \in ResetPairs :
          ConfirmResetPassword(q, "url", k, TRUE, p)
    \/ Tick

\* password resets next to logins and logouts
SessionSpec == LinkInit /\ [][SessionNext]_vars

LinkNext ==
    \/ \E q \in LReqs, k \in urlTokens, i \in BOOLEAN : VerifyEmail(q, "url", k, i)
    \/ \E q \in LReqs : tokens # <<>> /\ VerifyEmail(q, "jwt", BearerAsKey, TRUE)
    \/ \E q \in LReqs, k \in urlTokens, i \in BOOLEAN, p \in PasswordPairs :
          ConfirmResetPassword(q, "url", k, i, p)
    \/ \E q \in LReqs, p \in PasswordPairs :
          tokens # <<>> /\ ConfirmResetPassword(q, "jwt", BearerAsKey, TRUE, p)
    \/ \E u \in Users : Login(u)
    \/ \E q \in AReqs, e \in Endpoints : Gate(q, e, UrlSafeString, TRUE)
    \/ Tick

\* e-mailed links and bearer tokens side by side
LinkSpec == LinkInit /\ [][LinkNext]_vars

----------------------------------------------------------------------------
(* Properties of the booking engine *)

Done(q) == req[q].pc = "done"
Succeeded(q) == Done(q) /\ req[q].result = "RideResponse"
\* request q takes its first step (the ride query) in this step
Begins(q) == req[q].pc = "idle" /\ req'[q].pc # "idle"
\* request q reaches its outcome in this step
Finishes(q) == req[q].pc # "done" /\ req'[q].pc = "done"

\* C1: when a ride created with one seat receives exactly two booking calls,
\* from two distinct passengers neither of whom is the driver, both made
\* after the ride was created, then once both
\* calls have returned there is exactly one Booking row on the ride,
\* available_seats is 0, one caller got the ride and the other got
\* NoSeatsLeft or CannotBookRide.
C1_OneWinnerOnLastSeat ==
    \A r \in DOMAIN rides : \A p, q \in Reqs :
        ( /\ p # q
          /\ initialSeats[r] = 1
          /\ Done(p) /\ Done(q)
          /\ req[p].ride_id = r /\ req[q].ride_id = r
          /\ req[p].found /\ req[q].found
          /\ req[p].user # req[q].user
          /\ req[p].user # rides[r].driver_id
          /\ req[q].user # rides[r].driver_id
          /\ \A z \in Reqs \ {p, q} : req[z].ride_id # r )
        => ( /\ Cardinality(BookingsOf(r)) = 1
             /\ rides[r].available_seats = 0
             /\ \/ /\ Succeeded(p)
                   /\ req[q].result \in {"NoSeatsLeftException", "CannotBookRideException"}
                \/ /\ Succeeded(q)
                   /\ req[p].result \in {"NoSeatsLeftException", "CannotBookRideException"} )

\* C2: every ride has available_seats >= 0 in every reachable state.
C2_SeatsNonNegative ==
    \A r \in DOMAIN rides : rides[r].available_seats >= 0

\* a ride that two interleaved calls overbooked: its count is 0, not negative
C2_Witness ==
    \E r \in DOMAIN rides :
        /\ rides[r].available_seats = 0
        /\ initialSeats[r] >= 1
        /\ Cardinality(BookingsOf(r)) > initialSeats[r]

\* C3: for every ride, available_seats equals the seat count it was created
\* with minus the number of Booking rows on it, and the number of Booking
\* rows never exceeds that initial count.
C3_SeatsAccountForBookings ==
    \A r \in DOMAIN rides :
        /\ rides[r].available_seats = initialSeats[r] - Cardinality(BookingsOf(r))
        /\ Cardinality(BookingsOf(r)) <= initialSeats[r]

\* C4: there is at most one non-canceled Booking row per (ride, passenger).
C4_OneBookingPerPair ==
    \A r \in RideIds, u \in Users :
        Cardinality({b \in BookingsOfPair(r, u) : b.status # "canceled"}) <= 1

\* C5 (as stated): a call by a passenger who already held a Booking row on
\* the ride when the call began ends with BookingAlreadyExists and changes
\* neither the rides nor the bookings table, whatever the ride's seat count.
C5_DuplicateAlwaysAlreadyExists ==
    [][\A q \in Reqs :
          (Finishes(q) /\ req'[q].held0) =>
              /\ req'[q].result = "BookingAlreadyExistsException"
              /\ UNCHANGED <<rides, bookings>>]_vars

\* C5 (amended): such a call ends with BookingAlreadyExists when the ride
\* row it read has a seat left and with NoSeatsLeft when it read
\* available_seats = 0, and in both cases changes neither table.
C5_DuplicateRejected ==
    [][\A q \in Reqs :
          (Finishes(q) /\ req'[q].held0) =>
              /\ req'[q].result = IF req'[q].seats = 0
                                  THEN "NoSeatsLeftException"
                                  ELSE "BookingAlreadyExistsException"
              /\ UNCHANGED <<rides, bookings>>]_vars

\* a repeated call on a ride that still has a seat was turned away
C5_Witness ==
    \E q \in Reqs :
        /\ Done(q) /\ req[q].held0
        /\ req[q].seats > 0
        /\ req[q].result = "BookingAlreadyExistsException"

\* C6 (as stated): a call that reads a ride with available_seats = 0 ends,
\* whoever the caller is, with NoSeatsLeft and writes nothing.
C6_NoSeatsAlwaysNoSeatsLeft ==
    [][\A q \in Reqs :
          ( /\ Begins(q)
            /\ req'[q].ride_id \in DOMAIN rides
            /\ rides[req'[q].ride_id].available_seats = 0 )
          => /\ req'[q].pc = "done"
             /\ req'[q].result = "NoSeatsLeftException"
             /\ UNCHANGED <<rides, bookings>>]_vars

\* C6 (amended): a call by a user other than the ride's driver that reads a
\* ride with available_seats = 0 ends with NoSeatsLeft and writes nothing.
C6_NoSeatsRejected ==
    [][\A q \in Reqs :
          ( /\ Begins(q)
            /\ req'[q].ride_id \in DOMAIN rides
            /\ rides[req'[q].ride_id].available_seats = 0
            /\ rides[req'[q].ride_id].driver_id # req'[q].user )
          => /\ req'[q].pc = "done"
             /\ req'[q].result = "NoSeatsLeftException"
             /\ UNCHANGED <<rides, bookings>>]_vars

\* a passenger was turned away from a ride whose seats had been booked out
C6_Witness ==
    \E q \in Reqs :
        /\ Done(q)
        /\ req[q].result = "NoSeatsLeftException"
        /\ req[q].user # rides[req[q].ride_id].driver_id
        /\ initialSeats[req[q].ride_id] > 0
        /\ rides[req[q].ride_id].available_seats = 0

\* C7: a call by the ride's own driver ends with DriverCannotBookRide and
\* writes nothing, also when the ride has available_seats = 0.
C7_DriverRejectedFirst ==
    [][\A q \in Reqs :
          ( /\ Begins(q)
            /\ req'[q].ride_id \in DOMAIN rides
            /\ rides[req'[q].ride_id].driver_id = req'[q].user )
          => /\ req'[q].pc = "done"
             /\ req'[q].result = "DriverCannotBookRideException"
             /\ UNCHANGED <<rides, bookings>>]_vars

\* the driver was turned away from their own ride while it had no seat left
C7_Witness ==
    \E q \in Reqs :
        /\ Done(q)
        /\ req[q].result = "DriverCannotBookRideException"
        /\ req[q].user = rides[req[q].ride_id].driver_id
        /\ req[q].seats = 0

\* C8: a call whose ride id matches no ride ends with RideNotFound.
C8_MissingRideNotFound ==
    \A q \in Reqs :
        (Done(q) /\ ~req[q].found)
            => req[q].result = "RideNotFoundException"

\* C9: every step of a booking call either leaves the rides and bookings
\* tables as they are, or adds exactly one Booking row (seats_booked 1,
\* status pending, total_price the ride's price_per_seat) and lowers the
\* committed available_seats of that ride by exactly 1.
C9_AllOrNothing ==
    [][req' # req =>
          \/ UNCHANGED <<rides, bookings>>
          \/ \E q \in Reqs :
                LET r == req[q].ride_id IN
                /\ r \in DOMAIN rides
                /\ bookings' = bookings \cup
                      {NewBooking(nextBookingId, r, req[q].user,
                                  rides[r].price_per_seat)}
                /\ bookings' # bookings
                /\ rides' = [rides EXCEPT ![r].available_seats = @ - 1]]_vars

----------------------------------------------------------------------------
(* Properties of the token gate *)

\* C10: once logout has revoked a jti, the gate of every endpoint rejects a
\* token with that jti in every later state: with 401 RevokedToken while the
\* token still verifies, with 401 InvalidToken once it no longer does; and
\* every gate check that ran after the revocation ended in such a rejection.
C10_RevokedStaysRejected ==
    /\ \A j \in loggedOut : \A b \in {"access", "refresh"}, i \in BOOLEAN :
          LET out == TokenBearerCall(b, j, i) IN
          /\ out \in {"RevokedTokenException", "InvalidTokenException"}
          /\ StatusOf(out) = 401
          /\ token_valid(j, i) => out = "RevokedTokenException"
    /\ \A q \in AReqs :
          areq[q].afterRevoke =>
              /\ areq[q].pc = "done"
              /\ areq[q].result \in {"RevokedTokenException", "InvalidTokenException"}

\* a token that still verified was presented after its logout and turned
\* away as revoked
C10_Witness ==
    \E q \in AReqs :
        /\ areq[q].afterRevoke
        /\ areq[q].result = "RevokedTokenException"
        /\ token_valid(areq[q].jti, areq[q].intact)

\* request q is answered by its gate check in this step
GateStep(q) == areq[q].pc = "idle" /\ areq'[q].pc # "idle"

GateErrors ==
    {"InvalidTokenException", "RevokedTokenException",
     "AccessTokenRequiredException", "RefreshTokenRequiredException"}

\* the token request q presents has a valid signature, is unexpired, is of
\* the type the endpoint requires and its jti is not revoked (read in the
\* state the gate check starts from)
GoodToken(a) ==
    /\ a.jti \in DOMAIN tokens
    /\ a.intact
    /\ tokens[a.jti].exp > now
    /\ tokens[a.jti].refresh = (BearerOf(a.endpoint) = "refresh")
    /\ a.jti \notin revoked

\* C11: the gate lets a request through only if the presented token has a
\* valid signature, is unexpired, is of the type the endpoint requires and
\* its jti is not revoked; otherwise the request ends at the gate with one of
\* the gate's errors, the handler never answers it, and neither the tokens
\* nor the revocation store change.  A handler answers only a request that
\* passed the gate, and the store changes only for such a request.
C11_GateAcceptsOnlyGoodTokens ==
    [][/\ \A q \in AReqs :
             /\ (GateStep(q) /\ areq'[q].pc = "passed") => GoodToken(areq'[q])
             /\ (GateStep(q) /\ ~GoodToken(areq'[q])) =>
                    /\ areq'[q].pc = "done"
                    /\ areq'[q].result \in GateErrors
                    /\ UNCHANGED <<tokens, revoked>>
             /\ (areq'[q].result = "ok" /\ areq[q].result # "ok") =>
                    areq[q].pc = "passed"
             /\ (areq[q].pc = "done") => areq'[q] = areq[q]
       /\ revoked' # revoked => \E q \in AReqs : areq[q].pc = "passed"]_vars

\* one request was let through and answered by its handler, another was
\* turned away for a token that does not verify
C11_Witness ==
    \E p, q \in AReqs :
        /\ areq[p].pc = "done" /\ areq[p].result = "ok"
        /\ areq[q].pc = "done" /\ areq[q].result = "InvalidTokenException"

\* the presented token verifies, is revoked and is of the wrong type for the
\* endpoint of request q, which the gate answers in this step
RevokedWrongType(q) ==
    /\ GateStep(q)
    /\ areq'[q].jti \in DOMAIN tokens
    /\ token_valid(areq'[q].jti, areq'[q].intact)
    /\ areq'[q].jti \in revoked
    /\ BearerTypeCheck(BearerOf(areq'[q].endpoint), areq'[q].jti) # "ok"

\* C12 as stated: the gate checks the token type before revocation, so a
\* validly signed, unexpired token that is both of the wrong type for the
\* endpoint and revoked is rejected with the wrong-type error
C12_TypeCheckedFirst ==
    [][\A q \in AReqs :
          RevokedWrongType(q) =>
              areq'[q].result =
                  BearerTypeCheck(BearerOf(areq'[q].endpoint), areq'[q].jti)]_vars

\* C12 amended: the gate checks revocation before the token type, so a
\* validly signed, unexpired token that is both of the wrong type for the
\* endpoint and revoked is rejected with 401 RevokedToken
C12_RevocationCheckedFirst ==
    [][\A q \in AReqs :
          RevokedWrongType(q) =>
              /\ areq'[q].pc = "done"
              /\ areq'[q].result = "RevokedTokenException"
              /\ StatusOf(areq'[q].result) = 401]_vars

\* a logged-out access token that still verifies was presented to the
\* refresh endpoint and turned away as revoked
C12_Witness ==
    \E q \in AReqs :
        /\ areq[q].pc = "done"
        /\ areq[q].endpoint = "refresh_token"
        /\ areq[q].result = "RevokedTokenException"
        /\ ~tokens[areq[q].jti].refresh

\* the presented token verifies and is not revoked
ValidUnrevoked(a) ==
    /\ a.jti \in DOMAIN tokens
    /\ a.intact
    /\ tokens[a.jti].exp > now
    /\ a.jti \notin revoked

\* C13: a valid, unrevoked refresh token presented to an endpoint that
\* requires an access token is rejected with 403 AccessTokenRequired, and a
\* valid, unrevoked access token presented to the refresh endpoint is
\* rejected with 401 RefreshTokenRequired; the request ends there, no token
\* is minted and the revocation store does not change.
C13_WrongTypeRejected ==
    [][\A q \in AReqs :
          (GateStep(q) /\ ValidUnrevoked(areq'[q])) =>
              LET a == areq'[q] IN
              /\ (tokens[a.jti].refresh /\ a.endpoint # "refresh_token") =>
                    /\ a.pc = "done"
                    /\ a.result = "AccessTokenRequiredException"
                    /\ StatusOf(a.result) = 403
                    /\ UNCHANGED <<tokens, revoked, minted>>
              /\ (~tokens[a.jti].refresh /\ a.endpoint = "refresh_token") =>
                    /\ a.pc = "done"
                    /\ a.result = "RefreshTokenRequiredException"
                    /\ StatusOf(a.result) = 401
                    /\ UNCHANGED <<tokens, revoked, minted>>]_vars

\* both rejections have happened
C13_Witness ==
    \E p, q \in AReqs :
        /\ areq[p].result = "AccessTokenRequiredException"
        /\ tokens[areq[p].jti].refresh
        /\ areq[q].result = "RefreshTokenRequiredException"
        /\ ~tokens[areq[q].jti].refresh

\* C15: for every token create_access_token has made from user claims, a
\* lifetime and a refresh flag, verification at any time before the expiry
\* returns those user claims and that refresh flag, and verification once the
\* lifetime has elapsed returns nothing, which the gate answers with
\* InvalidToken.
C15_RoundTripUntilExpiry ==
    \A j \in DOMAIN tokens :
        LET m == minted[j] IN
        /\ now < m.iat + m.ttl =>
              /\ verify_access_token(j, TRUE) # NoTokenData
              /\ verify_access_token(j, TRUE).user = m.user
              /\ verify_access_token(j, TRUE).refresh = m.refresh
        /\ now >= m.iat + m.ttl =>
              /\ verify_access_token(j, TRUE) = NoTokenData
              /\ \A b \in {"access", "refresh"} :
                    TokenBearerCall(b, j, TRUE) = "InvalidTokenException"

\* at one moment one token has run out while another one, made later or with
\* a longer lifetime, still verifies
C15_Witness ==
    \E i, j \in DOMAIN tokens :
        /\ now >= minted[i].iat + minted[i].ttl
        /\ now < minted[j].iat + minted[j].ttl
        /\ verify_access_token(j, TRUE).user = minted[j].user

\* C16 as stated: verification reports an expired token with a valid
\* signature differently from a token with a bad signature
C16_ExpiredToldApart ==
    \A j \in DOMAIN tokens :
        tokens[j].exp <= now =>
            verify_access_token(j, TRUE) # verify_access_token(j, FALSE)

\* C16 amended: jwt.decode tells an expired token from a bad signature, but
\* verify_access_token returns None for both and the gate answers both with
\* 401 InvalidToken, so the caller cannot tell them apart
C16_ExpiredSameAsBadSignature ==
    /\ \A j \in DOMAIN tokens :
          tokens[j].exp <= now =>
              /\ jwt_decode(j, TRUE) = "ExpiredSignatureError"
              /\ jwt_decode(j, FALSE) = "InvalidSignatureError"
              /\ verify_access_token(j, TRUE) = NoTokenData
              /\ verify_access_token(j, FALSE) = NoTokenData
              /\ \A b \in {"access", "refresh"} :
                    /\ TokenBearerCall(b, j, TRUE) = "InvalidTokenException"
                    /\ TokenBearerCall(b, j, FALSE) = "InvalidTokenException"
    /\ \A q \in AReqs :
          (areq[q].pc # "idle" /\ ~areq[q].intact) =>
              /\ areq[q].result = "InvalidTokenException"
              /\ StatusOf(areq[q].result) = 401

\* an expired token with its signature intact and a token with altered bytes
\* were both presented, and both requests got InvalidToken
C16_Witness ==
    \E p, q \in AReqs :
        /\ areq[p].intact /\ areq[p].result = "InvalidTokenException"
        /\ areq[p].pc = "done" /\ areq[p].endpoint # "refresh_token"
        /\ ~areq[q].intact /\ areq[q].result = "InvalidTokenException"

\* request q is answered by the logout handler in this step
LogoutStep(q) ==
    /\ areq[q].pc = "passed" /\ areq[q].endpoint = "logout"
    /\ areq'[q].pc = "done"

PublicRoutes ==
    {"login", "signup", "request_verification_link", "verify",
     "reset_password", "confirm_reset_password"}

\* C14: the allow-listed routes (login, signup, verification-link request,
\* verification-link consume, password-reset request, password-reset
\* confirm) are served without any bearer token: a request to one of them
\* that carries no token reaches the handler, neither the middleware nor a
\* bearer dependency rejects it.
C14_PublicRoutesNeedNoToken ==
    \A q \in AReqs :
        (areq[q].pc = "done" /\ areq[q].jti = NoCredentials
           /\ areq[q].endpoint \in PublicRoutes) =>
            areq[q].result = "handler"

----------------------------------------------------------------------------
(* Properties of the e-mailed links and of signup *)

\* link request q is answered in this step
LinkStep(q) == lreq[q].pc = "idle" /\ lreq'[q].pc = "done"

\* C17: a URL-safe token (email verification, password reset) is never
\* accepted by the bearer gate: every endpoint's gate answers it with 401
\* InvalidToken and no handler runs; and a bearer token is never accepted as
\* a URL-safe token by the email-verification or password-reset-confirm
\* endpoint: it decodes to nothing, the request fails, and no account is
\* verified and no password changed.
C17_TokenKindsDoNotMix ==
    [][/\ \A q \in AReqs :
             (GateStep(q) /\ areq'[q].jti = UrlSafeString) =>
                 /\ areq'[q].pc = "done"
                 /\ areq'[q].result = "InvalidTokenException"
                 /\ UNCHANGED <<users, tokens, revoked>>
       /\ \A q \in LReqs :
             (LinkStep(q) /\ lreq'[q].kind = "jwt") =>
                 /\ lreq'[q].result \in
                       {"AttributeError", "PasswordIsShortException",
                        "PasswordsDontMatchException"}
                 /\ UNCHANGED <<users, tokens, revoked>>]_vars

\* a URL-safe token was turned away by the gate, and a bearer token failed
\* at the verification endpoint and at the password-reset confirmation with
\* acceptable passwords
C17_Witness ==
    /\ \E q \in AReqs :
          areq[q].jti = UrlSafeString /\ areq[q].result = "InvalidTokenException"
    /\ \E p, q \in LReqs :
          /\ lreq[p].kind = "jwt" /\ lreq[p].route = "verify"
          /\ lreq[p].result = "AttributeError"
          /\ lreq[q].kind = "jwt" /\ lreq[q].route = "confirm_reset_password"
          /\ lreq[q].result = "AttributeError"

\* signup request q takes its first step in this step
SignupBegins(q) == sreq[q].pc = "idle" /\ sreq'[q].pc # "idle"

\* C19: a signup with an email that already belongs to a user is rejected
\* with 409 UserAlreadyExists; it creates no row and dispatches no e-mail
\* (rows are created and e-mails dispatched only by requests that passed the
\* existence check, and a rejected request takes no further step).
C19_ExistingEmailConflict ==
    [][/\ \A q \in SReqs :
             /\ (SignupBegins(q)
                   /\ \E id \in DOMAIN users : users[id].email = sreq'[q].email) =>
                    /\ sreq'[q].pc = "done"
                    /\ sreq'[q].result = "UserAlreadyExistsException"
                    /\ StatusOf(sreq'[q].result) = 409
                    /\ users' = users
                    /\ outbox' = outbox
                    /\ urlTokens' = urlTokens
             /\ sreq[q].pc = "done" => sreq'[q] = sreq[q]
       /\ users' # users =>
             \E q \in SReqs : sreq[q].pc = "insert" /\ sreq'[q].pc = "created"
       /\ outbox' # outbox =>
             \E q \in SReqs : sreq[q].pc = "created" /\ sreq'[q].pc = "done"]_vars

\* a signup was rejected for an email that belongs to an account
C19_Witness ==
    \E q \in SReqs :
        /\ sreq[q].pc = "done"
        /\ sreq[q].result = "UserAlreadyExistsException"
        /\ ~sreq[q].fresh0
        /\ \E id \in DOMAIN users : users[id].email = sreq[q].email

\* C20: a signup with an email no user has and a username that already
\* belongs to a user is rejected with 409, and the users table is left as it
\* was.
C20_TakenUsernameConflict ==
    /\ \A q \in SReqs :
          (sreq[q].pc = "done" /\ sreq[q].fresh0 /\ sreq[q].taken0) =>
              StatusOf(sreq[q].result) = 409
    /\ \A q \in SReqs :
          (sreq[q].pc # "idle" /\ sreq[q].fresh0 /\ sreq[q].taken0) =>
              \A id \in DOMAIN users : users[id].email # sreq[q].email

----------------------------------------------------------------------------
(* Properties of the users table under signup and profile edits *)

\* C21: in every reachable state, whatever the interleaving of signup and
\* profile-edit requests, no two user rows share an email, a username or a
\* mobile number.
C21_UniqueUserColumns ==
    \A a, b \in DOMAIN users :
        a # b =>
            /\ users[a].email # users[b].email
            /\ users[a].username # users[b].username
            /\ users[a].mobile_number # users[b].mobile_number

\* two accounts exist and a profile edit that asked for the username of the
\* other one passed the checks of the handler and was stopped by the
\* constraint at commit
C21_Witness ==
    \E e \in EReqs :
        /\ ereq[e].result = "HTTPException400"
        /\ ereq[e].mobile = Null
        /\ \E other \in DOMAIN users \ {ereq[e].caller} :
              users[other].username = ereq[e].username

\* edit request q takes its first step in this step
EditBegins(q) == ereq[q].pc = "idle" /\ ereq'[q].pc # "idle"

\* C23: a profile edit whose path user id differs from the authenticated
\* user's id is rejected with 403 and changes no user record; the rejected
\* request takes no further step.
C23_ForeignProfileForbidden ==
    [][\A q \in EReqs :
          /\ (EditBegins(q) /\ ereq'[q].user_id # ereq'[q].caller) =>
                /\ ereq'[q].pc = "done"
                /\ ereq'[q].result = "HTTPException403"
                /\ StatusOf(ereq'[q].result) = 403
                /\ users' = users
          /\ (ereq[q].pc = "done" /\ ereq[q].user_id # ereq[q].caller) =>
                ereq'[q] = ereq[q]]_vars

\* an edit of another user's profile was refused
C23_Witness ==
    \E q \in EReqs :
        /\ ereq[q].pc = "done"
        /\ ereq[q].user_id # ereq[q].caller
        /\ ereq[q].user_id \in DOMAIN users
        /\ ereq[q].username # Null
        /\ ereq[q].result = "HTTPException403"

\* C29: a profile edit changes only the editable profile fields of the
\* authenticated user: it never changes any user's role, email, password or
\* is_verified flag, it leaves every other row as it is, and a field
\* submitted as null keeps the value the row has.
C29_EditTouchesOnlyProfileFields ==
    [][\A q \in EReqs :
          (ereq[q].pc # "done" /\ ereq'[q].pc = "done") =>
              /\ DOMAIN users' = DOMAIN users
              /\ \A id \in DOMAIN users :
                    /\ users'[id].role = users[id].role
                    /\ users'[id].email = users[id].email
                    /\ users'[id].password = users[id].password
                    /\ users'[id].is_verified = users[id].is_verified
                    /\ id # ereq'[q].caller => users'[id] = users[id]
              /\ ereq'[q].username = Null =>
                    users'[ereq'[q].caller].username = users[ereq'[q].caller].username
              /\ ereq'[q].mobile = Null =>
                    users'[ereq'[q].caller].mobile_number =
                        users[ereq'[q].caller].mobile_number]_vars

----------------------------------------------------------------------------
(* Properties of e-mailed links *)

\* C22: decode_url_safe_token of a genuine link older than the validity
\* window returns no data, and the verification endpoint given such a link
\* answers with an error response that its own code produces, not with an
\* exception that escapes the handler, and leaves every is_verified flag as
\* it is.
C22_ExpiredLinkAnsweredWithoutException ==
    [][\A q \in LReqs :
          (/\ LinkStep(q)
           /\ lreq'[q].route = "verify"
           /\ lreq'[q].kind = "url"
           /\ lreq'[q].intact
           /\ now - lreq'[q].iat > UrlMaxAge) =>
              /\ decode_url_safe_token("url",
                     [email |-> lreq'[q].email, iat |-> lreq'[q].iat], TRUE)
                   = NoUrlData
              /\ StatusOf(lreq'[q].result) >= 400
              /\ \A id \in DOMAIN users :
                    users'[id].is_verified = users[id].is_verified
              /\ lreq'[q].result # "AttributeError"]_vars

----------------------------------------------------------------------------
(* Properties of ride creation and of the seat counter *)

\* C24: a ride row is inserted only by a call whose authenticated caller has
\* role driver, and it carries that caller as driver_id; for a caller of any
\* other role the role check of the route does not pass, so no step inserts
\* a row for them.
C24_OnlyDriversCreateRides ==
    [][/\ \A r \in DOMAIN rides' \ DOMAIN rides :
             /\ users[rides'[r].driver_id].role = "driver"
             /\ RoleChecker({"driver"}, rides'[r].driver_id) = "ok"
       /\ \A u \in Users :
             users[u].role # "driver" =>
                 RoleChecker({"driver"}, u) = "PermissionRequiredException"]_vars

\* a driver has shared a ride while verified passengers exist whose calls
\* the role check refuses
C24_Witness ==
    /\ \E r \in DOMAIN rides : users[rides[r].driver_id].role = "driver"
    /\ \E u \in Users :
          /\ users[u].is_verified
          /\ users[u].role = "passenger"
          /\ \A r \in DOMAIN rides : rides[r].driver_id # u

\* C26: once a ride exists, a step changes its available_seats only if it
\* is the commit of a booking of that ride, and then by exactly -1; every
\* other step leaves it as it is, so the counter never rises.
C26_SeatsOnlyFallByOne ==
    [][\A r \in DOMAIN rides :
          /\ rides'[r].available_seats <= rides[r].available_seats
          /\ rides'[r].available_seats # rides[r].available_seats =>
                /\ rides'[r].available_seats = rides[r].available_seats - 1
                /\ \E q \in Reqs :
                      /\ req[q].ride_id = r
                      /\ Finishes(q)
                      /\ req'[q].result = "RideResponse"]_vars

\* substring test on character sequences
Contains(str, sub) ==
    \E i \in 0..(Len(str) - Len(sub)) : SubSeq(str, i + 1, i + Len(sub)) = sub

\* C25: the ride search answers with exactly the rides whose destination
\* contains the filter, letters compared without case, and whose
\* available_seats is above zero; without a filter it answers with the
\* client error for a missing destination and no list.
C25_ListIsSubstringMatchWithSeats ==
    [][listing' # listing =>
          IF listing'.destination = Null
          THEN /\ listing'.error = "DestinationNotFoundException"
               /\ StatusOf(listing'.error) \in 400..499
          ELSE /\ listing'.error = "none"
               /\ listing'.result =
                     {r \in DOMAIN rides :
                         /\ Contains(Lower(rides[r].destination),
                                     Lower(listing'.destination))
                         /\ rides[r].available_seats > 0}]_vars

----------------------------------------------------------------------------
(* Properties of logout and password reset against the token gate *)

\* request q is answered by the refresh handler with a new token in this step
RefreshStep(q) ==
    /\ areq[q].pc = "passed" /\ areq[q].endpoint = "refresh_token"
    /\ areq'[q].pc = "done" /\ areq'[q].result = "ok"

\* the refresh token that the login of access token j issued with it
SameLoginRefresh(j) == j + 1

\* C27: logout adds to the revocation store exactly the jti of the access
\* token it was given; no step ever adds the jti of a refresh token; the
\* refresh token issued by the same login as a logged-out access token is
\* accepted by the refresh endpoint's gate until it expires, and each token
\* the refresh endpoint mints is an access token which the gate accepts.
C27_LogoutSparesRefreshToken ==
    [][/\ \A q \in AReqs :
             LogoutStep(q) =>
                 /\ revoked' = revoked \cup {areq[q].jti}
                 /\ ~tokens[areq[q].jti].refresh
       /\ \A j \in revoked' \ revoked : ~tokens[j].refresh
       /\ \A j \in revoked' :
             (/\ SameLoginRefresh(j) \in DOMAIN tokens'
              /\ tokens'[SameLoginRefresh(j)].refresh
              /\ tokens'[SameLoginRefresh(j)].exp > now') =>
                 TokenBearerCall("refresh", SameLoginRefresh(j), TRUE)' = "ok"
       /\ \A q \in AReqs :
             RefreshStep(q) =>
                 \A n \in DOMAIN tokens' \ DOMAIN tokens :
                     /\ ~tokens'[n].refresh
                     /\ TokenBearerCall("access", n, TRUE)' = "ok"]_vars

\* the access token of a login was logged out; afterwards the refresh token
\* of that login passed the gate of the refresh endpoint and minted access
\* token n, which the gate accepts
C27_Witness ==
    \E j \in revoked, n \in DOMAIN tokens, q \in AReqs :
        /\ j \in loggedOut
        /\ SameLoginRefresh(j) \in DOMAIN tokens
        /\ tokens[SameLoginRefresh(j)].refresh
        /\ areq[q].pc = "done" /\ areq[q].endpoint = "refresh_token"
        /\ areq[q].jti = SameLoginRefresh(j) /\ areq[q].result = "ok"
        /\ n > SameLoginRefresh(j)
        /\ minted[n].iat = now
        /\ j \in minted[n].store
        /\ ~tokens[n].refresh
        /\ n + 1 \notin DOMAIN tokens
        /\ TokenBearerCall("access", n, TRUE) = "ok"

\* the flows that mailed this key
IssuedBy(key) == {m.template : m \in {n \in outbox : n.key = key}}

\* the key request q presented in this step is genuine, within its validity
\* window, and names a registered account
GoodKeyStep(q) ==
    /\ LinkStep(q)
    /\ lreq'[q].kind = "url" /\ lreq'[q].intact
    /\ now - lreq'[q].iat <= UrlMaxAge
    /\ get_user_email(lreq'[q].email) # {}

C30_ResetKeepsSessions ==
    [][\A q \in LReqs :
          (LinkStep(q) /\ lreq'[q].route = "confirm_reset_password") =>
              /\ revoked' = revoked
              /\ tokens' = tokens
              /\ \A j \in DOMAIN tokens, b \in {"access", "refresh"} :
                    TokenBearerCall(b, j, TRUE)' = TokenBearerCall(b, j, TRUE)]_vars

\* a password was reset with a link issued at time 1, the refresh token of
\* a login at time 0 is still accepted, and the access token of that login,
\* logged out, is still refused as revoked
C30_Witness ==
    \E q \in LReqs, j \in DOMAIN tokens :
        /\ lreq[q].route = "confirm_reset_password"
        /\ lreq[q].result = "password reset"
        /\ lreq[q].iat >= 1
        /\ users[tokens[j].user].password = get_password_hash("newpassword")
        /\ minted[j].iat = 0 /\ tokens[j].refresh
        /\ TokenBearerCall("refresh", j, TRUE) = "ok"
        /\ (j - 1) \in revoked

====
